---- MODULE Spec2Model ----
(***************************************************************************)
(* Model of the SemanticKITTI statistics scripts                           *)
(*   src/semantic-kitti/generate_train_statistics.py  (script = "train")   *)
(*   src/semantic-kitti/generate_test_statistics.py   (script = "test")    *)
(*                                                                         *)
(* Numbers.  The scripts compute in floating point; the model computes    *)
(* the same expressions exactly.  A float is a pair <<n, d>>: the         *)
(* rational n/d in lowest terms with d > 0, or one of the three IEEE      *)
(* specials a division by zero produces under numpy: <<1,0>> (+inf),      *)
(* <<-1,0>> (-inf), <<0,0>> (nan).  Coordinates, timestamps and matrix    *)
(* entries of the inputs are integers.  np.linalg.norm is the exact       *)
(* square root; the input sets hold only vectors whose norm is an         *)
(* integer.  A pose is represented by its translation column (the         *)
(* rotation block only feeds the heading, which is not modelled).         *)
(***************************************************************************)
EXTENDS Integers, Sequences, FiniteSets, TLC

VARIABLES
    script,                 \* which of the two scripts runs
    \* ---- process_all_sequences ----
    pc,                     \* position of the program
    seq_id,                 \* index of the sequence in the batch loop
    log,                    \* lines printed so far: <<kind, sequence, detail>>
    files,                  \* files[k]: output files written for sequence k
    err,                    \* cause of the exception in flight ("" if none)
    \* ---- process_sequence locals ----
    Tr, P2, poses, times,
    frame_id,
    frame_summaries, total_distance, speeds, class_percentages_list,
    object_counts_list, prev_pose, prev_time, prev_speed,
    sequence_summary,
    \* ---- one frame, step by step (specification SpecFrame) ----
    points, labels,
    points_cam, points_front, points_img, front_labels,
    class_percentages_named, instances,
    \* ---- one call of get_spatial_location (specification SpecLoc) ----
    loc_x, loc_y,           \* the arguments x, y
    spatial_loc             \* the bucket returned ("" before the call)

seqVars == <<pc, seq_id, log, files, err, Tr, P2, poses, times, frame_id,
             frame_summaries, total_distance, speeds, class_percentages_list,
             object_counts_list, prev_pose, prev_time, prev_speed,
             sequence_summary>>

frameVars == <<points, labels, points_cam, points_front, points_img,
               front_labels, class_percentages_named, instances,
               loc_x, loc_y, spatial_loc>>

vars == <<script, seqVars, frameVars>>

----------------------------------------------------------------------------
(* Bounds of the model *)

MaxPoints == 2          \* points per frame in SpecFrame
MaxFrames == 3          \* lines of poses.txt / times.txt in SpecSeq
BatchFrames == 1        \* lines of poses.txt / times.txt in Spec
NumSeqs == 2            \* sequence directories visited by the batch loop
LocSpread == 2          \* half pixels around a grid boundary in SpecLoc

(* Program constants *)

ImgWidth == 1242
ImgHeight == 375
SemMask == 65536        \* 0xFFFF + 1: "& 0xFFFF" is "% SemMask", ">> 16" is "\div SemMask"

----------------------------------------------------------------------------
(* Exact arithmetic standing for the scripts' float arithmetic *)

Abs(n) == IF n < 0 THEN -n ELSE n

RECURSIVE GCD(_, _)
GCD(a, b) == IF b = 0 THEN a ELSE GCD(b, a % b)

Sign(n) == IF n > 0 THEN 1 ELSE IF n < 0 THEN -1 ELSE 0

\* n / d as numpy computes it: no exception on d = 0, but inf, -inf or nan.
Rat(n, d) ==
    IF d = 0 THEN <<Sign(n), 0>>
    ELSE LET g == GCD(Abs(n), Abs(d))
             s == IF d < 0 THEN -1 ELSE 1
         IN  <<(s * n) \div g, (s * d) \div g>>

FromInt(n) == <<n, 1>>
Zero == FromInt(0)

IsNaN(a) == a = <<0, 0>>
IsFinite(a) == a[2] # 0

\* Comparisons: any comparison with nan is False.
RatLess(a, b) == ~IsNaN(a) /\ ~IsNaN(b) /\ a[1] * b[2] < b[1] * a[2]
RatGeq(a, b) == ~IsNaN(a) /\ ~IsNaN(b) /\ a[1] * b[2] >= b[1] * a[2]
RatGt(a, b) == RatLess(b, a)

\* The operands below are finite wherever the scripts use them.
RatAdd(a, b) == Rat(a[1] * b[2] + b[1] * a[2], a[2] * b[2])
RatSub(a, b) == Rat(a[1] * b[2] - b[1] * a[2], a[2] * b[2])
RatDiv(a, b) == Rat(a[1] * b[2], a[2] * b[1])

RECURSIVE RatSum(_)
RatSum(s) == IF s = <<>> THEN Zero ELSE RatAdd(Head(s), RatSum(Tail(s)))

\* np.mean of a non-empty list
Mean(s) == RatDiv(RatSum(s), FromInt(Len(s)))

RatMin(a, b) == IF RatLess(b, a) THEN b ELSE a
RatMax(a, b) == IF RatLess(a, b) THEN b ELSE a

\* mutant of MinOf: the first element
MinOf_First(s) == s[1]

RECURSIVE MinOf(_)
MinOf(s) == IF Len(s) = 1 THEN s[1] ELSE RatMin(s[1], MinOf(Tail(s)))

RECURSIVE MaxOf(_)
MaxOf(s) == IF Len(s) = 1 THEN s[1] ELSE RatMax(s[1], MaxOf(Tail(s)))

\* np.linalg.norm of an integer vector whose norm is an integer
Norm(v) ==
    LET sq == v[1] * v[1] + v[2] * v[2] + v[3] * v[3]
    IN  CHOOSE r \in 0..sq : r * r = sq

VecSub(a, b) == <<a[1] - b[1], a[2] - b[2], a[3] - b[3]>>

\* The elements of s at the positions where keep holds, in order (s[mask]).
RECURSIVE SelectIdx(_, _, _)
SelectIdx(s, keep, i) ==
    IF i > Len(s) THEN <<>>
    ELSE (IF keep[i] THEN <<s[i]>> ELSE <<>>) \o SelectIdx(s, keep, i + 1)

BoolMask(s, keep) == SelectIdx(s, keep, 1)

\* The elements of a finite set of integers in increasing order (np.unique).
RECURSIVE SortedSeq(_)
SortedSeq(S) ==
    IF S = {} THEN <<>>
    ELSE LET m == CHOOSE x \in S : \A y \in S : x <= y
         IN  <<m>> \o SortedSeq(S \ {m})

Range(s) == {s[i] : i \in 1..Len(s)}

SetMax(S) == CHOOSE x \in S : \A y \in S : y <= x

----------------------------------------------------------------------------
(* label_to_name *)

label_to_name ==
    [l \in {0, 1, 10, 11, 13, 15, 16, 18, 20, 30, 31, 32, 40, 44, 48, 49, 50,
            51, 52, 60, 61, 70, 71, 80, 252, 253, 254, 255, 256, 257, 258, 259}
     |-> CASE l = 0 -> "unlabeled" [] l = 1 -> "outlier" [] l = 10 -> "car"
           [] l = 11 -> "bicycle" [] l = 13 -> "bus" [] l = 15 -> "motorcycle"
           [] l = 16 -> "on-rails" [] l = 18 -> "truck"
           [] l = 20 -> "other-vehicle" [] l = 30 -> "person"
           [] l = 31 -> "bicyclist" [] l = 32 -> "motorcyclist"
           [] l = 40 -> "road" [] l = 44 -> "parking" [] l = 48 -> "sidewalk"
           [] l = 49 -> "other-ground" [] l = 50 -> "building"
           [] l = 51 -> "fence" [] l = 52 -> "vegetation" [] l = 60 -> "trunk"
           [] l = 61 -> "terrain" [] l = 70 -> "pole"
           [] l = 71 -> "traffic-sign" [] l = 80 -> "other-object"
           [] l = 252 -> "moving-car" [] l = 253 -> "moving-bicyclist"
           [] l = 254 -> "moving-person" [] l = 255 -> "moving-motorcyclist"
           [] l = 256 -> "moving-on-rails" [] l = 257 -> "moving-bus"
           [] l = 258 -> "moving-truck" [] l = 259 -> "moving-other-vehicle"]

LabelIds == DOMAIN label_to_name

\* mutant of LabelName: every unknown id gets the same name
LabelName_NoId(l) ==
    IF l \in LabelIds THEN label_to_name[l] ELSE "unknown"

\* label_to_name.get(label, f"unknown_{label}")
LabelName(l) ==
    IF l \in LabelIds THEN label_to_name[l] ELSE "unknown_" \o ToString(l)

\* label_to_name.get(inst_semantic, "unknown")
InstClassName(l) ==
    IF l \in LabelIds THEN label_to_name[l] ELSE "unknown"

----------------------------------------------------------------------------
(* load_frame_data: the labels a frame's .label file yields *)

LoadLabels(scr, raw) ==
    IF scr = "test" THEN [i \in 1..Len(raw) |-> raw[i] % SemMask] ELSE raw

----------------------------------------------------------------------------
(* project_to_front_view *)

Dot4(r, h) == r[1] * h[1] + r[2] * h[2] + r[3] * h[3] + r[4] * h[4]

Hom(p) == <<p[1], p[2], p[3], 1>>

\* One row of (Tr @ points_hom.T).T
CamPoint(tr, p) ==
    <<Dot4(tr[1], Hom(p)), Dot4(tr[2], Hom(p)), Dot4(tr[3], Hom(p)),
      Dot4(tr[4], Hom(p))>>

\* mutant of MaskZ: z = 0 passes
MaskZ_NonNegative(cams) == [i \in 1..Len(cams) |-> cams[i][3] >= 0]

\* mask_z = points_cam[:, 2] > 0
MaskZ(cams) == [i \in 1..Len(cams) |-> cams[i][3] > 0]

\* One row of P2 @ [x, y, z, 1], then [:2] / [2:]
ProjectImg(p2, c) ==
    LET h == <<c[1], c[2], c[3], 1>>
        w == Dot4(p2[3], h)
    IN  <<Rat(Dot4(p2[1], h), w), Rat(Dot4(p2[2], h), w)>>

\* mutant of MaskImg: u = 1242 passes
MaskImg_Inclusive(img) ==
    [i \in 1..Len(img) |->
        /\ RatGeq(img[i][1], Zero)
        /\ ~RatGt(img[i][1], FromInt(ImgWidth))
        /\ RatGeq(img[i][2], Zero)
        /\ RatLess(img[i][2], FromInt(ImgHeight))]

\* mask_img
MaskImg(img) ==
    [i \in 1..Len(img) |->
        /\ RatGeq(img[i][1], Zero)
        /\ RatLess(img[i][1], FromInt(ImgWidth))
        /\ RatGeq(img[i][2], Zero)
        /\ RatLess(img[i][2], FromInt(ImgHeight))]

\* A boolean mask indexes an array of another length: numpy raises IndexError.
ProjectRaises(pts, lbls) == Len(pts) # Len(lbls)

\* mutant of ProjectToFrontView: the labels are filtered by the z mask only
ProjectToFrontView_LabelsAfterZ(pts, lbls, tr, p2) ==
    LET cams_all == [i \in 1..Len(pts) |-> CamPoint(tr, pts[i])]
        mask_z == MaskZ(cams_all)
        points_after_z == BoolMask(pts, mask_z)
        cams == BoolMask(cams_all, mask_z)
        labels_after_z == BoolMask(lbls, mask_z)
        img == [i \in 1..Len(cams) |-> ProjectImg(p2, cams[i])]
        mask_img == MaskImg(img)
    IN  [cam |-> cams,
         front |-> BoolMask(points_after_z, mask_img),
         img |-> BoolMask(img, mask_img),
         labels |-> labels_after_z]

\* cam: the camera-frame points that are projected and divided (points_cam
\* after the z mask); front, img, labels: the three arrays returned.
ProjectToFrontView(pts, lbls, tr, p2) ==
    LET cams_all == [i \in 1..Len(pts) |-> CamPoint(tr, pts[i])]
        mask_z == MaskZ(cams_all)
        points_after_z == BoolMask(pts, mask_z)
        cams == BoolMask(cams_all, mask_z)
        labels_after_z == BoolMask(lbls, mask_z)
        img == [i \in 1..Len(cams) |-> ProjectImg(p2, cams[i])]
        mask_img == MaskImg(img)
    IN  [cam |-> cams,
         front |-> BoolMask(points_after_z, mask_img),
         img |-> BoolMask(img, mask_img),
         labels |-> BoolMask(labels_after_z, mask_img)]

----------------------------------------------------------------------------
(* get_spatial_location *)

\* mutant of get_spatial_location: <= in place of <
get_spatial_location_Inclusive(x, y) ==
    LET x_loc == IF ~RatGt(x, Rat(ImgWidth, 3)) THEN "left"
                 ELSE IF ~RatGt(x, Rat(2 * ImgWidth, 3)) THEN "center"
                 ELSE "right"
        y_loc == IF ~RatGt(y, Rat(ImgHeight, 3)) THEN "top"
                 ELSE IF ~RatGt(y, Rat(2 * ImgHeight, 3)) THEN "middle"
                 ELSE "bottom"
    IN  y_loc \o "-" \o x_loc

get_spatial_location(x, y) ==
    LET x_loc == IF RatLess(x, Rat(ImgWidth, 3)) THEN "left"
                 ELSE IF RatLess(x, Rat(2 * ImgWidth, 3)) THEN "center"
                 ELSE "right"
        y_loc == IF RatLess(y, Rat(ImgHeight, 3)) THEN "top"
                 ELSE IF RatLess(y, Rat(2 * ImgHeight, 3)) THEN "middle"
                 ELSE "bottom"
    IN  y_loc \o "-" \o x_loc

----------------------------------------------------------------------------
(* Per-frame statistics of process_sequence *)

\* train: front_labels & 0xFFFF; test: the labels were masked when loaded
SemanticLabels(scr, fl) ==
    IF scr = "train" THEN [i \in 1..Len(fl) |-> fl[i] % SemMask] ELSE fl

\* front_labels >> 16
InstanceIds(fl) == [i \in 1..Len(fl) |-> fl[i] \div SemMask]

CountOf(s, x) == Cardinality({i \in 1..Len(s) : s[i] = x})

\* {label: count / total_points * 100 for label, count in zip(unique, counts)}
ClassPercentages(sem) ==
    LET total_points == IF Len(sem) > 0 THEN Len(sem) ELSE 1
    IN  [l \in Range(sem) |-> Rat(CountOf(sem, l) * 100, total_points)]

\* The dict comprehension over class_percentages.items(): the keys come in
\* increasing label order, and a later item replaces an earlier one that has
\* the same name.
ClassPercentagesNamed(cp) ==
    [n \in {LabelName(l) : l \in DOMAIN cp} |->
        cp[SetMax({l \in DOMAIN cp : LabelName(l) = n})]]

\* The entry appended to instances for inst_id
InstanceEntry(inst_id, front, img, sem, ids) ==
    LET mask == [i \in 1..Len(ids) |-> ids[i] = inst_id]
        inst_semantic == BoolMask(sem, mask)[1]
        inst_points_img == BoolMask(img, mask)
        inst_points_3d == BoolMask(front, mask)
        mean_x == Mean([i \in 1..Len(inst_points_img) |-> inst_points_img[i][1]])
        mean_y == Mean([i \in 1..Len(inst_points_img) |-> inst_points_img[i][2]])
        distances == [i \in 1..Len(inst_points_3d) |->
                         FromInt(Norm(inst_points_3d[i]))]
    IN  [class |-> InstClassName(inst_semantic),
         instance_id |-> inst_id,
         spatial_location |-> get_spatial_location(mean_x, mean_y),
         distance |-> MinOf(distances)]

\* for inst_id in np.unique(instance_ids): skip 0, append one entry
Instances(front, img, sem, ids) ==
    LET todo == SortedSeq(Range(ids) \ {0})
    IN  [k \in 1..Len(todo) |-> InstanceEntry(todo[k], front, img, sem, ids)]

CountClass(insts, names) ==
    Cardinality({k \in 1..Len(insts) : insts[k].class \in names})

\* Everything process_sequence derives from one frame's front view
FrameStats(scr, front, img, fl) ==
    LET sem == SemanticLabels(scr, fl)
        insts == IF scr = "train"
                 THEN Instances(front, img, sem, InstanceIds(fl))
                 ELSE <<>>
    IN  [class_percentages_named |-> ClassPercentagesNamed(ClassPercentages(sem)),
         instances |-> insts,
         num_cars |-> CountClass(insts, {"car", "moving-car"}),
         num_persons |-> CountClass(insts, {"person", "moving-person"})]

----------------------------------------------------------------------------
(* Inputs *)

Scripts == {"train", "test"}

\* calib.txt contents: velodyne x forward becomes camera z
Tr1 == <<<<0, -1, 0, 0>>, <<0, 0, -1, 0>>, <<1, 0, 0, 0>>, <<0, 0, 0, 1>>>>
P2a == <<<<621, 0, 621, 0>>, <<0, 621, 187, 0>>, <<0, 0, 1, 0>>>>
\* the camera one unit ahead of the sensor; a projection whose depth row
\* is z - 3, so that the divisor can be zero or negative for z > 0
Tr2 == <<<<0, -1, 0, 0>>, <<0, 0, -1, 0>>, <<1, 0, 0, -1>>, <<0, 0, 0, 1>>>>
P2b == <<<<621, 0, 621, 0>>, <<0, 621, 187, 0>>, <<0, 0, 1, -3>>>>

Calibs == {<<Tr1, P2a>>, <<Tr2, P2b>>}

\* velodyne points (x, y, z), each of integer norm
FramePoints ==
    {<<1, 0, 0>>, <<4, 3, 0>>, <<12, 4, 3>>, <<-1, 0, 0>>, <<12, -12, 1>>}

\* packed labels: instance id * 65536 + semantic id
FrameLabels ==
    {10, 99, 1 * SemMask + 10, 1 * SemMask + 98, 2 * SemMask + 30}

SeqsUpTo(n, S) == UNION {[1..k -> S] : k \in 0..n}

NoFrame ==
    /\ points = <<>> /\ labels = <<>> /\ points_cam = <<>>
    /\ points_front = <<>> /\ points_img = <<>> /\ front_labels = <<>>
    /\ class_percentages_named = <<>> /\ instances = <<>>
    /\ loc_x = Zero /\ loc_y = Zero /\ spatial_loc = ""

NoSequence ==
    /\ poses = <<>> /\ times = <<>> /\ frame_id = 0
    /\ frame_summaries = <<>> /\ total_distance = Zero /\ speeds = <<>>
    /\ class_percentages_list = <<>> /\ object_counts_list = <<>>
    /\ prev_pose = <<>> /\ prev_time = 0 /\ prev_speed = Zero
    /\ sequence_summary = <<>>

----------------------------------------------------------------------------
(* SpecFrame: one iteration of the frame loop, step by step *)

InitFrame ==
    /\ script \in Scripts
    /\ \E c \in Calibs : Tr = c[1] /\ P2 = c[2]
    /\ pc = "load_frame"
    /\ seq_id = 0 /\ log = <<>> /\ files = <<>> /\ err = ""
    /\ NoSequence
    /\ NoFrame

\* points, labels = load_frame_data(...)
LoadFrame ==
    /\ pc = "load_frame"
    /\ \E n \in 0..MaxPoints :
         \E pts \in [1..n -> FramePoints], raw \in [1..n -> FrameLabels] :
            /\ points' = pts
            /\ labels' = LoadLabels(script, raw)
    /\ pc' = "project"
    /\ UNCHANGED <<script, seq_id, log, files, err, Tr, P2, poses, times,
                   frame_id, frame_summaries, total_distance, speeds,
                   class_percentages_list, object_counts_list, prev_pose,
                   prev_time, prev_speed, sequence_summary, points_cam,
                   points_front, points_img, front_labels,
                   class_percentages_named, instances, loc_x, loc_y,
                   spatial_loc>>

\* points_front, points_img, front_labels = project_to_front_view(...)
Project ==
    /\ pc = "project"
    /\ \E r \in {ProjectToFrontView(points, labels, Tr, P2)} :
           /\ points_cam' = r.cam
           /\ points_front' = r.front
           /\ points_img' = r.img
           /\ front_labels' = r.labels
    /\ pc' = "aggregate"
    /\ UNCHANGED <<script, seq_id, log, files, err, Tr, P2, poses, times,
                   frame_id, frame_summaries, total_distance, speeds,
                   class_percentages_list, object_counts_list, prev_pose,
                   prev_time, prev_speed, sequence_summary, points, labels,
                   class_percentages_named, instances, loc_x, loc_y,
                   spatial_loc>>

\* class percentages and instances of the frame
Aggregate ==
    /\ pc = "aggregate"
    /\ \E st \in {FrameStats(script, points_front, points_img, front_labels)} :
           /\ class_percentages_named' = st.class_percentages_named
           /\ instances' = st.instances
    /\ pc' = "frame_done"
    /\ UNCHANGED <<script, seq_id, log, files, err, Tr, P2, poses, times,
                   frame_id, frame_summaries, total_distance, speeds,
                   class_percentages_list, object_counts_list, prev_pose,
                   prev_time, prev_speed, sequence_summary, points, labels,
                   points_cam, points_front, points_img, front_labels,
                   loc_x, loc_y, spatial_loc>>

NextFrame == LoadFrame \/ Project \/ Aggregate

SpecFrame == InitFrame /\ [][NextFrame]_vars

----------------------------------------------------------------------------
(* One call of get_spatial_location: specification SpecLoc *)

\* the coordinates handed to get_spatial_location: the thirds of the image
\* width (height) and the values up to LocSpread half pixels around them
LocXs ==
    {RatAdd(Rat(j * ImgWidth, 3), Rat(d, 2)) :
        j \in 0..3, d \in (0 - LocSpread)..LocSpread}

LocYs ==
    {RatAdd(Rat(j * ImgHeight, 3), Rat(d, 2)) :
        j \in 0..3, d \in (0 - LocSpread)..LocSpread}

\* the mean image position (mean_x, mean_y) of an instance is at hand
InitLoc ==
    /\ script = "train"
    /\ Tr = Tr1 /\ P2 = P2a
    /\ pc = "locate"
    /\ seq_id = 0 /\ log = <<>> /\ files = <<>> /\ err = ""
    /\ NoSequence
    /\ points = <<>> /\ labels = <<>> /\ points_cam = <<>>
    /\ points_front = <<>> /\ points_img = <<>> /\ front_labels = <<>>
    /\ class_percentages_named = <<>> /\ instances = <<>>
    /\ loc_x \in LocXs /\ loc_y \in LocYs
    /\ spatial_loc = ""

\* spatial_loc = get_spatial_location(mean_x, mean_y)
Locate ==
    /\ pc = "locate"
    /\ spatial_loc' = get_spatial_location(loc_x, loc_y)
    /\ pc' = "located"
    /\ UNCHANGED <<script, seq_id, log, files, err, Tr, P2, poses, times,
                   frame_id, frame_summaries, total_distance, speeds,
                   class_percentages_list, object_counts_list, prev_pose,
                   prev_time, prev_speed, sequence_summary, points, labels,
                   points_cam, points_front, points_img, front_labels,
                   class_percentages_named, instances, loc_x, loc_y>>

NextLoc == Locate

SpecLoc == InitLoc /\ [][NextLoc]_vars

----------------------------------------------------------------------------
(* Ego motion and sequence statistics of process_sequence *)

\* mutant of Speed: divides whenever time_diff is not 0
Speed_AnyTimeDiff(displacement, time_diff) ==
    IF time_diff # 0 THEN Rat(displacement, time_diff) ELSE Zero

\* speed = displacement / time_diff if time_diff > 0 else 0
Speed(displacement, time_diff) ==
    IF time_diff > 0 THEN Rat(displacement, time_diff) ELSE Zero

\* mutant of Acceleration: the previous speed is left out
Acceleration_NoPrev(speed, prev_spd, time_diff) ==
    IF time_diff > 0 THEN RatDiv(speed, FromInt(time_diff)) ELSE Zero

\* acceleration = (speed - prev_speed) / time_diff if time_diff > 0 else 0
Acceleration(speed, prev_spd, time_diff) ==
    IF time_diff > 0
    THEN RatDiv(RatSub(speed, prev_spd), FromInt(time_diff))
    ELSE Zero

\* mutant of AddDistance: speed times elapsed time
AddDistance_SpeedTime(total, displacement, speed, time_diff) ==
    RatAdd(total, Rat(speed[1] * time_diff, speed[2]))

\* total_distance += displacement
AddDistance(total, displacement, speed, time_diff) ==
    RatAdd(total, FromInt(displacement))

\* The ego-motion block of one loop iteration; prv_pose = <<>> stands for None.
EgoMotion(prv_pose, prv_time, prv_speed, total, current_pose, current_time) ==
    IF prv_pose # <<>>
    THEN LET displacement == Norm(VecSub(current_pose, prv_pose))
             time_diff == current_time - prv_time
             speed == Speed(displacement, time_diff)
         IN  [speed |-> speed,
              acceleration |-> Acceleration(speed, prv_speed, time_diff),
              total_distance |-> AddDistance(total, displacement, speed, time_diff)]
    ELSE [speed |-> Zero, acceleration |-> Zero, total_distance |-> total]

\* total_duration = times[-1] - times[0] if len(times) > 1 else 0
TotalDuration(ts) == IF Len(ts) > 1 THEN ts[Len(ts)] - ts[1] ELSE 0

\* mutant of AverageSpeed: only a zero duration is guarded
AverageSpeed_NonZero(total, duration) ==
    IF duration # 0 THEN RatDiv(total, FromInt(duration)) ELSE Zero

\* average_speed = total_distance / total_duration if total_duration > 0 else 0
AverageSpeed(total, duration) ==
    IF duration > 0 THEN RatDiv(total, FromInt(duration)) ELSE Zero

\* mutant of PercentagesOf: only the frames that have the class
PercentagesOf_Present(cls, cpl) ==
    LET present == SelectSeq(cpl, LAMBDA cp : cls \in DOMAIN cp)
    IN  [i \in 1..Len(present) |-> present[i][cls]]

\* percentages = [cp.get(cls, 0) for cp in class_percentages_list]
PercentagesOf(cls, cpl) ==
    [i \in 1..Len(cpl) |->
        IF cls \in DOMAIN cpl[i] THEN cpl[i][cls] ELSE Zero]

\* average_class_percentages[cls] = float(np.mean(percentages))
AverageClassPercentages(cpl) ==
    LET all_classes == UNION {DOMAIN cpl[i] : i \in 1..Len(cpl)}
    IN  [cls \in all_classes |-> Mean(PercentagesOf(cls, cpl))]

\* time_series indexes class_percentages_list by range(len(times)): IndexError
\* when times.txt has more lines than poses.txt
TimeSeriesRaises(ts, cpl) == Len(ts) > Len(cpl)

\* mutant of TimeSeries: entry i takes the percentages of the frame before
TimeSeries_Shifted(scr, ts, cpl, ocl) ==
    [i \in 1..Len(ts) |->
        IF scr = "train"
        THEN [timestamp |-> ts[i],
              class_percentages |-> cpl[IF i > 1 THEN i - 1 ELSE i],
              car_count |-> ocl[i].car_count,
              person_count |-> ocl[i].person_count]
        ELSE [timestamp |-> ts[i],
              class_percentages |-> cpl[IF i > 1 THEN i - 1 ELSE i]]]

\* time_series: one entry per line of times.txt
TimeSeries(scr, ts, cpl, ocl) ==
    [i \in 1..Len(ts) |->
        IF scr = "train"
        THEN [timestamp |-> ts[i], class_percentages |-> cpl[i],
              car_count |-> ocl[i].car_count,
              person_count |-> ocl[i].person_count]
        ELSE [timestamp |-> ts[i], class_percentages |-> cpl[i]]]

SequenceSummary(scr, ps, ts, total, spds, cpl, ocl) ==
    [total_frames |-> Len(ps),
     total_duration |-> TotalDuration(ts),
     total_distance |-> total,
     average_speed |-> AverageSpeed(total, TotalDuration(ts)),
     min_speed |-> IF spds # <<>> THEN MinOf(spds) ELSE Zero,
     max_speed |-> IF spds # <<>> THEN MaxOf(spds) ELSE Zero,
     average_speed_from_frames |-> IF spds # <<>> THEN Mean(spds) ELSE Zero,
     average_class_percentages |-> AverageClassPercentages(cpl),
     total_unique_classes |-> UNION {DOMAIN cpl[i] : i \in 1..Len(cpl)},
     time_series |-> TimeSeries(scr, ts, cpl, ocl)]

\* The dict appended to frame_summaries
FrameSummary(scr, fid, current_time, st, ego) ==
    IF scr = "train"
    THEN [frame_id |-> fid, timestamp |-> current_time,
          class_percentages |-> st.class_percentages_named,
          unique_classes |-> DOMAIN st.class_percentages_named,
          instances |-> st.instances,
          num_cars |-> st.num_cars, num_persons |-> st.num_persons,
          ego_motion |-> [speed |-> ego.speed,
                          acceleration |-> ego.acceleration]]
    ELSE [frame_id |-> fid, timestamp |-> current_time,
          class_percentages |-> st.class_percentages_named,
          unique_classes |-> DOMAIN st.class_percentages_named,
          ego_motion |-> [speed |-> ego.speed,
                          acceleration |-> ego.acceleration]]

----------------------------------------------------------------------------
(* Inputs of a batch run *)

\* translation columns of poses.txt lines; all mutual distances are integers
PoseVals == {<<0, 0, 0>>, <<3, 4, 0>>}

\* times.txt lines
TimeVals == {0, 1, 2}

SeqCalibs == {<<Tr1, P2a>>}

\* Frames of a sequence, <<points, label file>>: a car of instance 1; that
\* car, road, and road behind the camera.
SeqFrames ==
    {<< <<<<1, 0, 0>>>>, <<1 * SemMask + 10>> >>,
     << <<<<1, 0, 0>>, <<4, 3, 0>>, <<-1, 0, 0>>>>,
        <<1 * SemMask + 10, 40, 40>> >>}

\* Frames whose label file is shorter or longer than the point file
SeqBadFrames ==
    {<< <<<<1, 0, 0>>>>, <<>> >>,
     << <<<<1, 0, 0>>>>, <<40, 40>> >>}

SeqIds == 0..(NumSeqs - 1)

OutputFiles == {"frame_summaries.json", "sequence_summary.json"}

----------------------------------------------------------------------------
(* Spec: process_all_sequences *)

Init ==
    /\ script \in Scripts
    /\ pc = "loop"
    /\ seq_id = 0
    /\ log = <<>>
    /\ files = [k \in SeqIds |-> {}]
    /\ err = ""
    /\ Tr = <<>> /\ P2 = <<>>
    /\ NoSequence
    /\ NoFrame

\* process_sequence is left: its locals are gone
ClearLocals ==
    /\ Tr' = <<>> /\ P2' = <<>>
    /\ poses' = <<>> /\ times' = <<>> /\ frame_id' = 0
    /\ frame_summaries' = <<>> /\ total_distance' = Zero /\ speeds' = <<>>
    /\ class_percentages_list' = <<>> /\ object_counts_list' = <<>>
    /\ prev_pose' = <<>> /\ prev_time' = 0 /\ prev_speed' = Zero
    /\ sequence_summary' = <<>>

\* if not os.path.exists(sequence_dir): print(...); continue
SkipMissing ==
    /\ pc = "loop" /\ seq_id < NumSeqs
    /\ log' = Append(log, <<"missing", seq_id, "">>)
    /\ seq_id' = seq_id + 1
    /\ UNCHANGED <<script, pc, files, err, Tr, P2, poses, times, frame_id,
                   frame_summaries, total_distance, speeds,
                   class_percentages_list, object_counts_list, prev_pose,
                   prev_time, prev_speed, sequence_summary, frameVars>>

\* try: print("Processing sequence ..."); process_sequence(...) is entered
EnterSequence ==
    /\ pc = "loop" /\ seq_id < NumSeqs
    /\ log' = Append(log, <<"processing", seq_id, "">>)
    /\ pc' = "load"
    /\ UNCHANGED <<script, seq_id, files, err, Tr, P2, poses, times, frame_id,
                   frame_summaries, total_distance, speeds,
                   class_percentages_list, object_counts_list, prev_pose,
                   prev_time, prev_speed, sequence_summary, frameVars>>

\* the accumulators are initialised for the first sequence only: later
\* sequences start from what an earlier one left behind
FreshAccumulators_FirstOnly(sid) ==
    IF sid = 0
    THEN [frame_summaries |-> <<>>, total_distance |-> Zero, speeds |-> <<>>,
          class_percentages_list |-> <<>>, object_counts_list |-> <<>>,
          prev_pose |-> <<>>, prev_time |-> 0, prev_speed |-> Zero]
    ELSE [frame_summaries |-> <<>>, total_distance |-> FromInt(5),
          speeds |-> <<Zero>>,
          class_percentages_list |-> <<>>, object_counts_list |-> <<>>,
          prev_pose |-> <<3, 4, 0>>, prev_time |-> 0, prev_speed |-> Zero]

\* the accumulators as process_sequence creates them at each call, whatever
\* the sequence sid (<<>> stands for None)
FreshAccumulators(sid) ==
    [frame_summaries |-> <<>>, total_distance |-> Zero, speeds |-> <<>>,
     class_percentages_list |-> <<>>, object_counts_list |-> <<>>,
     prev_pose |-> <<>>, prev_time |-> 0, prev_speed |-> Zero]

\* calib.txt, poses.txt and times.txt load (at most maxf lines each) and the
\* accumulators are initialised.
LoadInputs(maxf) ==
    /\ pc = "load"
    /\ \E c \in SeqCalibs : Tr' = c[1] /\ P2' = c[2]
    /\ poses' \in SeqsUpTo(maxf, PoseVals)
    /\ times' \in SeqsUpTo(maxf, TimeVals)
    /\ \E acc \in {FreshAccumulators(seq_id)} :
          /\ frame_summaries' = acc.frame_summaries
          /\ total_distance' = acc.total_distance
          /\ speeds' = acc.speeds
          /\ class_percentages_list' = acc.class_percentages_list
          /\ object_counts_list' = acc.object_counts_list
          /\ prev_pose' = acc.prev_pose
          /\ prev_time' = acc.prev_time
          /\ prev_speed' = acc.prev_speed
    /\ frame_id' = 0
    /\ pc' = "frames"
    /\ UNCHANGED <<script, seq_id, log, files, err, sequence_summary,
                   frameVars>>

\* load_calib, load_poses or load_times raises (missing or malformed file)
LoadFails ==
    /\ pc = "load"
    /\ err' \in {"calib", "poses", "times"}
    /\ pc' = "raised"
    /\ ClearLocals
    /\ UNCHANGED <<script, seq_id, log, files, frameVars>>

\* One iteration of the frame loop that completes
ProcessFrame ==
    /\ pc = "frames" /\ frame_id < Len(poses)
    /\ frame_id < Len(times)
    /\ \E f \in SeqFrames \cup SeqBadFrames :
        /\ ~ProjectRaises(f[1], LoadLabels(script, f[2]))
        /\ \E r \in {ProjectToFrontView(f[1], LoadLabels(script, f[2]), Tr, P2)} :
           \E st \in {FrameStats(script, r.front, r.img, r.labels)} :
           \E ego \in {EgoMotion(prev_pose, prev_time, prev_speed,
                                 total_distance, poses[frame_id + 1],
                                 times[frame_id + 1])} :
             LET current_pose == poses[frame_id + 1]
                 current_time == times[frame_id + 1]
             IN /\ frame_summaries' =
                      Append(frame_summaries,
                             FrameSummary(script, frame_id, current_time, st, ego))
                /\ class_percentages_list' =
                      Append(class_percentages_list, st.class_percentages_named)
                /\ object_counts_list' =
                      IF script = "train"
                      THEN Append(object_counts_list,
                                  [timestamp |-> current_time,
                                   car_count |-> st.num_cars,
                                   person_count |-> st.num_persons])
                      ELSE object_counts_list
                /\ speeds' = Append(speeds, ego.speed)
                /\ total_distance' = ego.total_distance
                /\ prev_pose' = current_pose
                /\ prev_time' = current_time
                /\ prev_speed' = ego.speed
    /\ frame_id' = frame_id + 1
    /\ UNCHANGED <<script, pc, seq_id, log, files, err, Tr, P2, poses, times,
                   sequence_summary, frameVars>>

\* load_frame_data raises: a frame's .bin or .label file is missing
FrameMissing ==
    /\ pc = "frames" /\ frame_id < Len(poses)
    /\ err' = "frame"
    /\ pc' = "raised"
    /\ ClearLocals
    /\ UNCHANGED <<script, seq_id, log, files, frameVars>>

\* the frame has not as many labels as points: project_to_front_view raises
FrameMismatch ==
    /\ pc = "frames" /\ frame_id < Len(poses)
    /\ \E f \in SeqFrames \cup SeqBadFrames :
            ProjectRaises(f[1], LoadLabels(script, f[2]))
    /\ err' = "mismatch"
    /\ pc' = "raised"
    /\ ClearLocals
    /\ UNCHANGED <<script, seq_id, log, files, frameVars>>

\* times[frame_id] raises IndexError: poses.txt has more lines than times.txt
TimeMissing ==
    /\ pc = "frames" /\ frame_id < Len(poses)
    /\ ~(frame_id < Len(times))
    /\ err' = "count"
    /\ pc' = "raised"
    /\ ClearLocals
    /\ UNCHANGED <<script, seq_id, log, files, frameVars>>

\* After the loop: the statistics are computed, then both files are written.
Summarise ==
    /\ pc = "frames" /\ frame_id = Len(poses)
    /\ ~TimeSeriesRaises(times, class_percentages_list)
    /\ sequence_summary' =
          SequenceSummary(script, poses, times, total_distance, speeds,
                          class_percentages_list, object_counts_list)
    /\ files' = [files EXCEPT ![seq_id] = OutputFiles]
    /\ log' = Append(log, <<"generated", seq_id, "">>)
    /\ pc' = "written"
    /\ UNCHANGED <<script, seq_id, err, Tr, P2, poses, times, frame_id,
                   frame_summaries, total_distance, speeds,
                   class_percentages_list, object_counts_list, prev_pose,
                   prev_time, prev_speed, frameVars>>

\* After the loop: building time_series raises, nothing is written.
SummaryFails ==
    /\ pc = "frames" /\ frame_id = Len(poses)
    /\ TimeSeriesRaises(times, class_percentages_list)
    /\ err' = "count"
    /\ pc' = "raised"
    /\ ClearLocals
    /\ UNCHANGED <<script, seq_id, log, files, frameVars>>

\* process_sequence returns; the loop goes on with the next sequence.
Return ==
    /\ pc = "written"
    /\ pc' = "loop"
    /\ seq_id' = seq_id + 1
    /\ ClearLocals
    /\ UNCHANGED <<script, log, files, err, frameVars>>

\* mutant of HandleError: the exception ends the batch
HandleError_Abort ==
    /\ pc = "raised"
    /\ log' = Append(log, <<"error", seq_id, err>>)
    /\ err' = ""
    /\ pc' = "done"
    /\ seq_id' = seq_id
    /\ ClearLocals
    /\ UNCHANGED <<script, files, frameVars>>

\* except Exception as e: print(f"Error processing sequence ...")
HandleError ==
    /\ pc = "raised"
    /\ log' = Append(log, <<"error", seq_id, err>>)
    /\ err' = ""
    /\ pc' = "loop"
    /\ seq_id' = seq_id + 1
    /\ ClearLocals
    /\ UNCHANGED <<script, files, frameVars>>

\* the for loop is exhausted
Finish ==
    /\ pc = "loop" /\ seq_id = NumSeqs
    /\ pc' = "done"
    /\ UNCHANGED <<script, seq_id, log, files, err, Tr, P2, poses, times,
                   frame_id, frame_summaries, total_distance, speeds,
                   class_percentages_list, object_counts_list, prev_pose,
                   prev_time, prev_speed, sequence_summary, frameVars>>

Next ==
    \/ SkipMissing \/ EnterSequence \/ LoadInputs(BatchFrames) \/ LoadFails
    \/ ProcessFrame \/ FrameMissing \/ FrameMismatch \/ TimeMissing
    \/ Summarise \/ SummaryFails \/ Return \/ HandleError \/ Finish

Spec == Init /\ [][Next]_vars

----------------------------------------------------------------------------
(* SpecSeq: one call of process_sequence, from its first line to the       *)
(* writing of its files or to the exception that leaves it                 *)

InitSeq ==
    /\ script \in Scripts
    /\ pc = "load"
    /\ seq_id = 0
    /\ log = <<<<"processing", 0, "">>>>
    /\ files = [k \in SeqIds |-> {}]
    /\ err = ""
    /\ Tr = <<>> /\ P2 = <<>>
    /\ NoSequence
    /\ NoFrame

NextSeq ==
    \/ LoadInputs(MaxFrames) \/ LoadFails
    \/ ProcessFrame \/ FrameMissing \/ FrameMismatch \/ TimeMissing
    \/ Summarise \/ SummaryFails

SpecSeq == InitSeq /\ [][NextSeq]_vars

----------------------------------------------------------------------------
(* Claims about one sequence (specification SpecSeq) *)

InSequence == pc \in {"frames", "written"}

\* squared distance between the translations of poses i and i-1 (i >= 2)
StepSq(i) ==
    LET d == VecSub(poses[i], poses[i - 1])
    IN  d[1] * d[1] + d[2] * d[2] + d[3] * d[3]

\* C5: frame 0 has speed = acceleration = 0; for a later frame i, with
\* dt = times[i] - times[i-1]: if dt > 0, speed_i = displacement / dt and
\* acceleration_i = (speed_i - speed_(i-1)) / dt; if dt <= 0 both are 0.
\* No value is the result of a division by zero.
Thm_C5_EgoMotion ==
    InSequence =>
        \A i \in 1..Len(frame_summaries) :
           LET sp == frame_summaries[i].ego_motion.speed
               ac == frame_summaries[i].ego_motion.acceleration
           IN  /\ sp[2] > 0 /\ ac[2] > 0
               /\ i = 1 => sp = Zero /\ ac = Zero
               /\ i > 1 =>
                    LET dt == times[i] - times[i - 1]
                        sp0 == frame_summaries[i - 1].ego_motion.speed
                    IN  IF dt > 0
                        THEN /\ sp[1] >= 0
                             /\ (sp[1] * dt) * (sp[1] * dt)
                                   = StepSq(i) * sp[2] * sp[2]
                             /\ ac[1] * dt * sp[2] * sp0[2]
                                   = ac[2] * (sp[1] * sp0[2] - sp0[1] * sp[2])
                        ELSE sp = Zero /\ ac = Zero

\* a frame with dt > 0 follows a frame of non-zero speed
Wit_C5 ==
    /\ InSequence
    /\ \E i \in 2..Len(frame_summaries) :
          /\ times[i] - times[i - 1] > 0
          /\ frame_summaries[i - 1].ego_motion.speed # Zero
          /\ frame_summaries[i].ego_motion.acceleration # Zero

\* a frame has dt <= 0 although the vehicle moved
Wit_C5_Guard ==
    /\ InSequence
    /\ \E i \in 2..Len(frame_summaries) :
          times[i] - times[i - 1] <= 0 /\ StepSq(i) > 0

RECURSIVE PathLength(_)
PathLength(k) ==
    IF k < 2 THEN 0
    ELSE PathLength(k - 1)
           + (CHOOSE r \in 0..StepSq(k) : r * r = StepSq(k))

\* C6: after frames 0..k, total_distance is the sum of the distances
\* between the translations of consecutive poses up to pose k: nothing for
\* frame 0, the displacement for every later frame.
Thm_C6_TotalDistance ==
    InSequence => total_distance = FromInt(PathLength(frame_id))

\* three frames done; the vehicle moved during a step with dt <= 0
Wit_C6 ==
    /\ InSequence
    /\ frame_id >= 3
    /\ total_distance # Zero
    /\ \E i \in 2..frame_id : times[i] - times[i - 1] <= 0 /\ StepSq(i) > 0

Written == pc = "written"

FramePct(i) == frame_summaries[i].class_percentages

\* sum over the frames of the class's percentage, 0 where it is absent
RECURSIVE PctTotal(_, _)
PctTotal(cls, k) ==
    IF k = 0 THEN Zero
    ELSE RatAdd(PctTotal(cls, k - 1),
                IF cls \in DOMAIN FramePct(k) THEN FramePct(k)[cls] ELSE Zero)

\* C7: the keys of average_class_percentages are the union of the frames'
\* class names, and each value is the sum of the class's per-frame
\* percentages (0 where absent) divided by the number of frames.
Thm_C7_AverageClassPercentages ==
    Written =>
        LET avg == sequence_summary.average_class_percentages
            n == sequence_summary.total_frames
        IN  /\ n = Len(frame_summaries)
            /\ DOMAIN avg = UNION {DOMAIN FramePct(i) : i \in 1..n}
            /\ \A cls \in DOMAIN avg :
                  /\ avg[cls][2] > 0
                  /\ RatDiv(PctTotal(cls, n), FromInt(n)) = avg[cls]

\* a class is in one frame and not in another
Wit_C7 ==
    /\ Written
    /\ \E i, j \in 1..Len(frame_summaries) :
          \E cls \in DOMAIN FramePct(i) : cls \notin DOMAIN FramePct(j)

\* C8: total_duration = last - first timestamp, 0 with fewer than 2 frames;
\* average_speed = total_distance / total_duration if that is > 0, else 0;
\* poses at the origin and (3,4,0) at times 0 and 2 give 5 and 2.5.
Thm_C8_DurationAndAverageSpeed ==
    Written =>
        LET dur == sequence_summary.total_duration
            avs == sequence_summary.average_speed
            dist == sequence_summary.total_distance
        IN  /\ dur = IF Len(times) < 2 THEN 0 ELSE times[Len(times)] - times[1]
            /\ avs[2] > 0
            /\ dur > 0 => avs[1] * dist[2] * dur = dist[1] * avs[2]
            /\ dur <= 0 => avs = Zero
            /\ (poses = <<<<0, 0, 0>>, <<3, 4, 0>>>> /\ times = <<0, 2>>)
                  => dist = FromInt(5) /\ avs = <<5, 2>>

\* the vehicle moved, and the last timestamp is before the first
Wit_C8 ==
    /\ Written
    /\ sequence_summary.total_distance # Zero
    /\ sequence_summary.total_duration < 0

\* the scenario of two frames
Wit_C8_Scenario ==
    /\ Written
    /\ poses = <<<<0, 0, 0>>, <<3, 4, 0>>>> /\ times = <<0, 2>>

----------------------------------------------------------------------------
(* Claims about a batch (specification Spec) *)

Logged(kind, k) == \E i \in 1..Len(log) : log[i][1] = kind /\ log[i][2] = k

\* C9: a sequence whose processing raised has neither output file, its
\* error is printed, and the batch goes on: when the batch is done, every
\* sequence was either found missing or processed.
Thm_C9_FailedSequence ==
    /\ pc = "raised" => err # "" /\ files[seq_id] = {}
    /\ \A k \in SeqIds :
          /\ Logged("error", k) => files[k] = {} /\ ~Logged("generated", k)
          /\ (k < seq_id /\ Logged("processing", k))
                => \/ Logged("error", k)
                   \/ Logged("generated", k) /\ files[k] = OutputFiles
    /\ pc = "done" =>
          \A k \in SeqIds : Logged("missing", k) \/ Logged("processing", k)

\* the first sequence failed on a pose/time count mismatch, the second
\* one was written
Wit_C9 ==
    /\ pc = "done"
    /\ \E i \in 1..Len(log) : log[i] = <<"error", 0, "count">>
    /\ files[0] = {}
    /\ files[1] = OutputFiles

----------------------------------------------------------------------------
(* Claims about one frame (specification SpecFrame) *)

CamZ(p) == CamPoint(Tr, p)[3]

Projected == pc \in {"aggregate", "frame_done"}

\* C1: no point whose camera-frame z is <= 0 is in the output of
\* project_to_front_view, and only points with z > 0 reach the perspective
\* projection and division (the z filter comes first).
Thm_C1_FrontHemisphere ==
    Projected =>
        /\ \A k \in 1..Len(points_front) : CamZ(points_front[k]) > 0
        /\ \A i \in 1..Len(points) :
              CamZ(points[i]) <= 0 => points[i] \notin Range(points_front)
        /\ \A k \in 1..Len(points_cam) : points_cam[k][3] > 0

\* a point behind the camera went in
\* (it would have landed inside the image had it been projected), and
\* another point came out
Wit_C1 ==
    /\ Projected
    /\ \E i \in 1..Len(points) :
          /\ CamZ(points[i]) < 0
          /\ MaskImg(<<ProjectImg(P2, CamPoint(Tr, points[i]))>>)[1]
    /\ Len(points_front) > 0

\* C2: every 2D point (u, v) returned satisfies 0 <= u < 1242, 0 <= v < 375.
Thm_C2_ImageBounds ==
    Projected =>
        \A k \in 1..Len(points_img) :
           LET u == points_img[k][1]
               v == points_img[k][2]
           IN  /\ u[2] > 0 /\ v[2] > 0
               /\ 0 <= u[1] /\ u[1] < ImgWidth * u[2]
               /\ 0 <= v[1] /\ v[1] < ImgHeight * v[2]

\* a point in front of the camera fell outside the image, another was returned
Wit_C2 ==
    /\ Projected
    /\ Len(points_img) > 0
    /\ Len(points_cam) > Len(points_img)

Aggregated == pc = "frame_done"

RECURSIVE SumOver(_, _)
SumOver(f, S) ==
    IF S = {} THEN Zero
    ELSE LET k == CHOOSE x \in S : TRUE
         IN  RatAdd(f[k], SumOver(f, S \ {k}))

\* semantic ids of the frame's filtered points
FrontSem == {front_labels[i] % SemMask : i \in 1..Len(front_labels)}

\* C3: for a frame with at least one point after filtering the values of
\* class_percentages sum to 100 and each is 100 * count / total, one key per
\* distinct semantic id; for a frame with no point the map is empty.
Thm_C3_PercentagesSum ==
    Aggregated =>
        IF Len(front_labels) > 0
        THEN /\ SumOver(class_percentages_named,
                        DOMAIN class_percentages_named) = FromInt(100)
             /\ Cardinality(DOMAIN class_percentages_named)
                   = Cardinality(FrontSem)
             /\ \A l \in FrontSem :
                   LET v == class_percentages_named[LabelName(l)]
                       n == Cardinality({i \in 1..Len(front_labels) :
                                            front_labels[i] % SemMask = l})
                   IN  v[1] * Len(front_labels) = 100 * n * v[2]
        ELSE DOMAIN class_percentages_named = {}

\* two semantic ids outside the class table share a frame
Wit_C3 ==
    /\ Aggregated
    /\ Cardinality(FrontSem \ LabelIds) >= 2

\* a frame was loaded with points, none of which passed the filters
Wit_C3_Empty ==
    /\ Aggregated
    /\ Len(points) > 0
    /\ Len(front_labels) = 0

FrontInst == {front_labels[i] \div SemMask : i \in 1..Len(front_labels)}

PointsOfInst(id) ==
    {i \in 1..Len(front_labels) : front_labels[i] \div SemMask = id}

\* C4: (train) instances holds exactly one entry per distinct non-zero
\* instance id among the filtered points, none for id 0, and each entry's
\* distance is the least Euclidean norm of that instance's 3D points.
Thm_C4_Instances ==
    (Aggregated /\ script = "train") =>
        /\ {instances[k].instance_id : k \in 1..Len(instances)}
              = FrontInst \ {0}
        /\ Len(instances) = Cardinality(FrontInst \ {0})
        /\ \A k \in 1..Len(instances) :
              LET d == instances[k].distance
                  P == PointsOfInst(instances[k].instance_id)
              IN  /\ d[2] = 1
                  /\ \E i \in P : Norm(points_front[i]) = d[1]
                  /\ \A i \in P : d[1] <= Norm(points_front[i])

\* an instance of two points, the nearer one second
Wit_C4 ==
    /\ Aggregated /\ script = "train"
    /\ \E k \in 1..Len(instances) :
          \E i, j \in PointsOfInst(instances[k].instance_id) :
             i < j /\ Norm(points_front[j]) < Norm(points_front[i])

\* C10 as claimed: every semantic id outside the class table is rendered
\* unknown_<id>, as a key of class_percentages and as an instance's class.
Cex_C10_UnknownRendering ==
    (Aggregated /\ script = "train") =>
        /\ \A l \in FrontSem \ LabelIds :
              ("unknown_" \o ToString(l)) \in DOMAIN class_percentages_named
        /\ \A k \in 1..Len(instances) :
              LET i == CHOOSE x \in PointsOfInst(instances[k].instance_id) :
                          \A y \in PointsOfInst(instances[k].instance_id) : x <= y
                  l == front_labels[i] % SemMask
              IN  l \notin LabelIds =>
                     instances[k].class = "unknown_" \o ToString(l)

----------------------------------------------------------------------------
(* Claims about the independence of the sequences of a batch
   (specification Spec) *)

\* the speeds, class percentages and object counts of the frames of the
\* sequence at hand, read from its frame summaries
OwnSpeeds ==
    [i \in 1..Len(frame_summaries) |-> frame_summaries[i].ego_motion.speed]

OwnPercentages ==
    [i \in 1..Len(frame_summaries) |-> frame_summaries[i].class_percentages]

OwnCounts ==
    IF script = "train"
    THEN [i \in 1..Len(frame_summaries) |->
             [timestamp |-> frame_summaries[i].timestamp,
              car_count |-> frame_summaries[i].num_cars,
              person_count |-> frame_summaries[i].num_persons]]
    ELSE <<>>

\* a sequence before the one at hand was written, one raised
EarlierWritten == \E k \in SeqIds : k < seq_id /\ Logged("generated", k)

EarlierFailed == \E k \in SeqIds : k < seq_id /\ Logged("error", k)

\* C11: the sequences of a batch share no accumulator. Whatever was
\* processed or failed before, a sequence enters its frame loop with no
\* previous pose, time or speed, no distance and empty lists; its lists
\* hold one entry per frame of its own, its first frame has speed and
\* acceleration 0, its distance is the length of its own path, and its
\* summary is the one computed from its own poses, times and frames.
Thm_C11_FreshPerSequence ==
    /\ (pc = "frames" /\ frame_id = 0) =>
          /\ prev_pose = <<>> /\ prev_time = 0 /\ prev_speed = Zero
          /\ total_distance = Zero /\ speeds = <<>>
          /\ frame_summaries = <<>> /\ class_percentages_list = <<>>
          /\ object_counts_list = <<>>
    /\ InSequence =>
          /\ Len(frame_summaries) = frame_id
          /\ speeds = OwnSpeeds
          /\ class_percentages_list = OwnPercentages
          /\ object_counts_list = OwnCounts
          /\ total_distance = FromInt(PathLength(frame_id))
          /\ frame_id >= 1 =>
                frame_summaries[1].ego_motion
                   = [speed |-> Zero, acceleration |-> Zero]
    /\ Written =>
          sequence_summary =
             SequenceSummary(script, poses, times,
                             FromInt(PathLength(Len(poses))), OwnSpeeds,
                             OwnPercentages, OwnCounts)

\* the second sequence is written, with a frame, after the first one was
\* written
Wit_C11 ==
    /\ Written /\ seq_id >= 1 /\ frame_id >= 1
    /\ EarlierWritten

\* a sequence is written, with a frame, after an earlier one raised
Wit_C11_AfterFailure ==
    /\ Written /\ seq_id >= 1 /\ frame_id >= 1
    /\ EarlierFailed

----------------------------------------------------------------------------
(* Claims about the arrays project_to_front_view returns
   (specification SpecFrame) *)

\* numerators and denominator of the projection of input point p: the image
\* point is (ProjU / ProjW, ProjV / ProjW)
ProjU(p) ==
    LET c == CamPoint(Tr, p) IN Dot4(P2[1], <<c[1], c[2], c[3], 1>>)

ProjV(p) ==
    LET c == CamPoint(Tr, p) IN Dot4(P2[2], <<c[1], c[2], c[3], 1>>)

ProjW(p) ==
    LET c == CamPoint(Tr, p) IN Dot4(P2[3], <<c[1], c[2], c[3], 1>>)

\* input index i passes the z > 0 filter and the image-bounds filter
Kept(i) ==
    LET p == points[i]
        s == Sign(ProjW(p))
    IN  /\ CamZ(p) > 0
        /\ s # 0
        /\ 0 <= s * ProjU(p) /\ s * ProjU(p) < ImgWidth * s * ProjW(p)
        /\ 0 <= s * ProjV(p) /\ s * ProjV(p) < ImgHeight * s * ProjW(p)

KeptIdx == {i \in 1..Len(points) : Kept(i)}

\* the k-th index of the set S of input indices, in input order
KeptAt(S, k) == CHOOSE i \in S : Cardinality({j \in S : j <= i}) = k

\* C12: the three arrays project_to_front_view returns have one length,
\* the number of input indices that pass both filters; entry k of each
\* belongs to the k-th such index in input order: the 3D point as it came
\* in, its projection, its label. No input point gives three empty arrays.
Thm_C12_AlignedSubsequence ==
    Projected =>
        /\ \A S \in {KeptIdx} :
              /\ Len(points_front) = Cardinality(S)
              /\ Len(points_img) = Cardinality(S)
              /\ Len(front_labels) = Cardinality(S)
              /\ \A k \in 1..Len(points_front) :
                    \A i \in {KeptAt(S, k)} :
                    \A w \in {ProjW(points[i])} :
                       LET u == points_img[k][1]
                           v == points_img[k][2]
                       IN  /\ points_front[k] = points[i]
                           /\ front_labels[k] = labels[i]
                           /\ u[2] > 0 /\ u[1] * w = u[2] * ProjU(points[i])
                           /\ v[2] > 0 /\ v[1] * w = v[2] * ProjV(points[i])
        /\ points = <<>> =>
              points_front = <<>> /\ points_img = <<>> /\ front_labels = <<>>

\* the first input point is dropped by the image-bounds filter, the second
\* one is kept, and the two carry different labels
Wit_C12 ==
    /\ Projected
    /\ Len(points) = 2 /\ labels[1] # labels[2]
    /\ CamZ(points[1]) > 0 /\ ~Kept(1) /\ Kept(2)
    /\ Len(points_front) = 1

\* a frame without points went through
Wit_C12_Empty == Projected /\ points = <<>> /\ points_front = <<>>

----------------------------------------------------------------------------
(* Claims about get_spatial_location (specification SpecLoc) *)

Located == pc = "located"

Buckets ==
    {yl \o "-" \o xl : yl \in {"top", "middle", "bottom"},
                        xl \in {"left", "center", "right"}}

\* the column (row) of the bucket returned
XLocIs(xl) == \E yl \in {"top", "middle", "bottom"} : spatial_loc = yl \o "-" \o xl

YLocIs(yl) == \E xl \in {"left", "center", "right"} : spatial_loc = yl \o "-" \o xl

\* C13 as claimed: every (x, y) goes to one of the nine buckets, and a
\* coordinate exactly on a grid boundary goes to the lower-index bucket.
Cex_C13_TiesLower ==
    Located =>
        /\ spatial_loc \in Buckets
        /\ loc_x = Rat(ImgWidth, 3) => XLocIs("left")
        /\ loc_x = Rat(2 * ImgWidth, 3) => XLocIs("center")
        /\ loc_y = Rat(ImgHeight, 3) => YLocIs("top")
        /\ loc_y = Rat(2 * ImgHeight, 3) => YLocIs("middle")

\* C13, amended: every (x, y) goes to exactly one of the nine buckets, the
\* column being left for 3x < width, center for width <= 3x < 2 width and
\* right from there on, the row likewise with the height; so a coordinate
\* exactly on a grid boundary goes to the higher-index bucket (center
\* rather than left, right rather than center, middle rather than top,
\* bottom rather than middle).
Thm_C13_TiesHigher ==
    Located =>
        /\ spatial_loc \in Buckets
        /\ Cardinality({b \in Buckets : b = spatial_loc}) = 1
        /\ XLocIs("left") <=> 3 * loc_x[1] < ImgWidth * loc_x[2]
        /\ XLocIs("center") <=>
              /\ ImgWidth * loc_x[2] <= 3 * loc_x[1]
              /\ 3 * loc_x[1] < 2 * ImgWidth * loc_x[2]
        /\ XLocIs("right") <=> 2 * ImgWidth * loc_x[2] <= 3 * loc_x[1]
        /\ YLocIs("top") <=> 3 * loc_y[1] < ImgHeight * loc_y[2]
        /\ YLocIs("middle") <=>
              /\ ImgHeight * loc_y[2] <= 3 * loc_y[1]
              /\ 3 * loc_y[1] < 2 * ImgHeight * loc_y[2]
        /\ YLocIs("bottom") <=> 2 * ImgHeight * loc_y[2] <= 3 * loc_y[1]
        /\ loc_x = Rat(ImgWidth, 3) => XLocIs("center")
        /\ loc_x = Rat(2 * ImgWidth, 3) => XLocIs("right")
        /\ loc_y = Rat(ImgHeight, 3) => YLocIs("middle")
        /\ loc_y = Rat(2 * ImgHeight, 3) => YLocIs("bottom")

\* x on the first boundary of the width, y on the second one of the height
Wit_C13 ==
    /\ Located
    /\ loc_x = Rat(ImgWidth, 3) /\ loc_y = Rat(2 * ImgHeight, 3)
    /\ spatial_loc = "bottom-center"

----------------------------------------------------------------------------
(* Claims about the order of the frames and about the speed statistics
   (specification SpecSeq) *)

\* C14: the frames are processed in the order 0, 1, ..., N-1: after k
\* frames frame_summaries holds the entries of frames 0..k-1 in that order,
\* entry i with frame index i and timestamp times[i]. For a sequence that
\* completes, frame_summaries and time_series have one entry per frame,
\* entry i of time_series carrying times[i] and the class percentages
\* computed for frame i.
Thm_C14_FrameOrder ==
    /\ InSequence =>
          /\ Len(frame_summaries) = frame_id
          /\ frame_id <= Len(poses)
          /\ \A i \in 1..Len(frame_summaries) :
                /\ frame_summaries[i].frame_id = i - 1
                /\ frame_summaries[i].timestamp = times[i]
    /\ Written =>
          LET series == sequence_summary.time_series
          IN  /\ Len(frame_summaries) = Len(poses)
              /\ Len(series) = Len(poses)
              /\ sequence_summary.total_frames = Len(poses)
              /\ \A i \in 1..Len(series) :
                    /\ series[i].timestamp = times[i]
                    /\ series[i].class_percentages = FramePct(i)

\* a sequence of three frames is written; its first two frames differ in
\* timestamp and in class percentages
Wit_C14 ==
    /\ Written
    /\ Len(frame_summaries) = 3
    /\ times[1] # times[2]
    /\ FramePct(1) # FramePct(2)

\* a <= b for two finite values
RatLeq(a, b) == a[1] * b[2] <= b[1] * a[2]

\* C15: in a sequence with at least one frame every per-frame speed is
\* >= 0, the speed of frame 0 is 0 and so the reported min_speed is 0, and
\* min_speed <= average_speed_from_frames <= max_speed; in a sequence
\* without frames min_speed, max_speed and average_speed_from_frames are 0.
Thm_C15_MinSpeedZero ==
    /\ InSequence =>
          /\ \A i \in 1..Len(speeds) : speeds[i][2] > 0 /\ speeds[i][1] >= 0
          /\ Len(speeds) >= 1 => speeds[1] = Zero
    /\ Written =>
          LET mn == sequence_summary.min_speed
              mx == sequence_summary.max_speed
              av == sequence_summary.average_speed_from_frames
          IN  IF Len(poses) >= 1
              THEN /\ mn = Zero
                   /\ av[2] > 0 /\ mx[2] > 0
                   /\ RatLeq(mn, av) /\ RatLeq(av, mx)
              ELSE mn = Zero /\ mx = Zero /\ av = Zero

\* the vehicle moved between every two frames of a written sequence of
\* three: the slowest motion is not 0, min_speed is
Wit_C15 ==
    /\ Written
    /\ Len(speeds) = 3
    /\ speeds[2] # Zero /\ speeds[3] # Zero
    /\ sequence_summary.min_speed = Zero
    /\ sequence_summary.max_speed # Zero

\* a sequence without frames is written
Wit_C15_Empty == Written /\ poses = <<>> /\ sequence_summary.total_frames = 0

====
